---- MODULE Spec2Model ----
(***************************************************************************)
(* Vox-E: the min-cut edit-region segmentation of                          *)
(* thre3d_atom/modules/refinement_functions.py (get_edit_region,           *)
(* build_graph, set_and_visualize_refined_grid), as a state machine, and   *)
(* the timestep schedule of StableDiffusion.train_step in                  *)
(* thre3d_atom/thre3d_reprs/sd.py.                                         *)
(*                                                                         *)
(* Numbers.  Reals are fixed point: probabilities in units of 1e-5,        *)
(* sigmoid-activated features in units of 1e-4, edge capacities in units   *)
(* of 1e-4.  exp and sigmoid are tables over the values the bounded        *)
(* inputs can produce.                                                     *)
(*                                                                         *)
(* Scale.  build_graph hard-codes the seed counts 300 / 300 / 200 / 5000.  *)
(* No run on fewer than 300 active voxels gets past seed selection, so the *)
(* four counts are scaled down (keeping their order relations) to let      *)
(* grids of at most eight voxels exercise every branch; they are bounds of *)
(* the model, not the literals of the source.                              *)
(***************************************************************************)
EXTENDS Integers, Sequences, FiniteSets, TLC

VARIABLES
    shape,                  \* x, y, z of densities.shape
    densities,              \* vol_mod_edit.thre3d_repr._densities
    features,               \* vol_mod_edit.thre3d_repr._features (raw, one channel)
    obj_densities,          \* vol_mod_object.thre3d_repr._densities
    obj_features,           \* vol_mod_object.thre3d_repr._features
    edit_attn,              \* vol_mod_edit.thre3d_repr.attn
    obj_attn,               \* vol_mod_object.thre3d_repr.attn
    out_attn,               \* vol_mod_output.thre3d_repr.attn
    topk_ties,              \* tie order of this build's torch.topk
    config,                 \* the CLI options of the graph cut stage
    pc,                     \* position in get_edit_region / build_graph
    err,                    \* the statement that raised, "none" otherwise
    run,                    \* number of the current get_edit_region call
    num_nodes,              \* nodes added to the maxflow graph
    idx_values,             \* node index -> voxel coordinate
    idx_dict,               \* gen_id(coordinate) -> node index
    probs,                  \* node index -> <<p_edit, p_object>>
    best_voxels_edit_mask,  \* nodes passing the primary edit rule
    obj_idxs,               \* object-dominant nodes
    top_k_best_edit_idxs,   \* edit seeds (sequence of node indices)
    top_k_best_obj_idxs,    \* object seeds (sequence of node indices)
    tedges,                 \* node -> terminal capacities added by add_tedge
    added,                  \* the add_edge calls, in order: <<node, neighbour, w>>
    flow,                   \* value returned by g.maxflow()
    segments,               \* node index -> g.get_segment(node)
    prev,                   \* seeds, segments and flow of the previous call
    t_sched_start,          \* StableDiffusion.t_sched_start
    t_sched_freq,           \* StableDiffusion.t_sched_freq
    t_sched_gamma,          \* StableDiffusion.t_sched_gamma, in 1e-1
    num_train_timesteps,    \* scheduler.config.num_train_timesteps
    min_step,               \* StableDiffusion.min_step
    max_step_ratio,         \* StableDiffusion.max_step_ratio, in 1e-4
    max_step,               \* StableDiffusion.max_step
    global_step,            \* the global_step of the last train_step call
    num_calls               \* number of train_step calls so far

vars == <<shape, densities, features, obj_densities, obj_features, edit_attn,
          obj_attn, out_attn, topk_ties, config, pc, err, run, num_nodes, idx_values,
          idx_dict, probs, best_voxels_edit_mask, obj_idxs,
          top_k_best_edit_idxs, top_k_best_obj_idxs, tedges, added,
          flow, segments, prev, t_sched_start, t_sched_freq, t_sched_gamma,
          num_train_timesteps, min_step, max_step_ratio, max_step, global_step,
          num_calls>>

\* the state of the StableDiffusion guidance object
sdvars == <<t_sched_start, t_sched_freq, t_sched_gamma, num_train_timesteps,
            min_step, max_step_ratio, max_step, global_step, num_calls>>

inputs == <<shape, densities, features, obj_densities, obj_features,
            edit_attn, obj_attn, topk_ties, config>>

graphvars == <<num_nodes, idx_values, idx_dict, probs, best_voxels_edit_mask,
               obj_idxs, top_k_best_edit_idxs, top_k_best_obj_idxs, tedges,
               added, flow, segments>>

----------------------------------------------------------------------------
(* Bounds of the model *)

\* stands for the literal 300 of "best_voxels_edit_mask.sum() < 300"
min_num_edit_voxels == 3
\* stands for the literal 300 of "torch.topk(edit_attn_vals.squeeze(), 300)"
top_k_edit_thresh == 3
\* stands for the literal 200 of "torch.topk(obj_attn_vals.squeeze(), 200)"
top_k_obj_thresh == 2
\* stands for the literal 5000 of "perm[:5000]"
num_obj_voxels_thresh == 4
\* get_edit_region is called at most this many times on the same inputs
MaxRuns == 2
\* train_step is called at most this many times
MaxCalls == 4
\* the global_step of a train_step call is at most this
MaxGlobalStep == 4

----------------------------------------------------------------------------
(* Program constants *)

\* 0.992, in thousandths
edit_mask_thresh == 992
\* segment ids of PyMaxflow: 0 is the source side, printed "marked as Edit"
\* "self.min_step_ratio = 0.02", in 1e-4
min_step_ratio == 200
\* "self.max_step_ratio = 0.98" of __init__, in 1e-4
init_max_step_ratio == 9800
\* the literal 0.22 of "if self.max_step_ratio < 0.22", in 1e-4
max_step_ratio_floor == 2200
EDIT == 0
\* 1 is the sink side, printed "marked as Object"
OBJECT == 1

g_neighbor_offsets ==
    << <<-1, 0, 0>>, <<0, -1, 0>>, <<0, 0, -1>>,
       <<1, 0, 0>>,  <<0, 1, 0>>,  <<0, 0, 1>> >>

----------------------------------------------------------------------------
(* Helpers on grids *)

Coords(s) == {<<a, b, c>> : a \in 0..(s[1]-1), b \in 0..(s[2]-1), c \in 0..(s[3]-1)}

Abs(n) == IF n < 0 THEN -n ELSE n

SetMin(S) == CHOOSE m \in S : \A n \in S : m <= n

\* position of a coordinate in the row-major (C order) enumeration of a grid
RowMajor(c, s) == (c[1] * s[2] + c[2]) * s[3] + c[3]

\* the elements of a set of naturals in ascending order
RECURSIVE Ascending(_)
Ascending(S) ==
    IF S = {} THEN <<>> ELSE <<SetMin(S)>> \o Ascending(S \ {SetMin(S)})

Range(q) == {q[k] : k \in 1..Len(q)}

\* "i in tensor"
In(i, q) == \E k \in 1..Len(q) : q[k] = i

\* torch.sigmoid on the raw feature values the inputs use, in 1e-4
Sigmoid(f) == CASE f = -1 -> 2689 [] f = 0 -> 5000 [] f = 1 -> 7311

\* softmax over the pair (edit, object): p_edit = sigmoid(edit - object), in 1e-5
SoftmaxEdit(d) ==
    CASE d = -6 -> 247   [] d = -5 -> 669   [] d = -4 -> 1799  [] d = -3 -> 4743
      [] d = -2 -> 11920 [] d = -1 -> 26894 [] d = 0 -> 50000  [] d = 1 -> 73106
      [] d = 2 -> 88080  [] d = 3 -> 95257  [] d = 4 -> 98201  [] d = 5 -> 99331
      [] d = 6 -> 99753

\* K * exp(-l2 / sigma) for K = 5.0, sigma = 0.1 (the defaults of
\* get_edit_region), l2 in 1e-4, result in 1e-4
Affinity(l2) == CASE l2 = 0 -> 50000 [] l2 = 2311 -> 4958 [] l2 = 4622 -> 492

----------------------------------------------------------------------------
(* build_graph: nodes *)

Empty == [i \in {} |-> 0]

\* m(densities) > 0.0 with m = MaxPool3d(3, stride=1, padding=1).  densities has
\* shape (x, y, z, 1): a 4-D input is an unbatched (C, D, H, W) volume, so the
\* first axis is the channel axis and the 3x3x3 window slides over (y, z, 1).
NonZeroDensities(dens, s) ==
    {c \in Coords(s) :
        \E d \in Coords(s) :
            /\ d[1] = c[1]
            /\ Abs(d[2] - c[2]) <= 1
            /\ Abs(d[3] - c[3]) <= 1
            /\ dens[d] > 0}

\* idx_grid[mask]: the coordinates of the mask, in row-major order
IdxValues(mask, s) ==
    [i \in 0..(Cardinality(mask) - 1) |->
        CHOOSE c \in mask :
            Cardinality({d \in mask : RowMajor(d, s) < RowMajor(c, s)}) = i]

\* variant: the second stride is y instead of x
gen_idStrideY(t_in, x, y) == t_in[1] + t_in[2] * y + t_in[3] * x * y

gen_id(t_in, x, y) == t_in[1] + t_in[2] * x + t_in[3] * x * y

\* the loop "idx_dict[gen_id(idx_values[i], x, y)] = i": a later i overwrites
IdxDict(iv, s) ==
    [id \in {gen_id(iv[i], s[1], s[2]) : i \in DOMAIN iv} |->
        CHOOSE i \in DOMAIN iv :
            /\ gen_id(iv[i], s[1], s[2]) = id
            /\ \A j \in DOMAIN iv : gen_id(iv[j], s[1], s[2]) = id => j <= i]

----------------------------------------------------------------------------
(* build_graph: seeds *)

\* softmax_fn(cat(edit_attn_vals, obj_attn_vals)), per node
Probs(iv, ea, oa) ==
    [i \in DOMAIN iv |->
        <<SoftmaxEdit(ea[iv[i]] - oa[iv[i]]), 100000 - SoftmaxEdit(ea[iv[i]] - oa[iv[i]])>>]

SetMax(S) == CHOOSE m \in S : \A n \in S : m >= n

\* variant: the object column of probs is thresholded
BestVoxelsObjColumn(p) ==
    {i \in DOMAIN p : 1000 * p[i][2] >= edit_mask_thresh * SetMax({p[j][2] : j \in DOMAIN p})}

\* probs[..., 0] >= 0.992 * top_prob_edit
BestVoxelsEditMask(p) ==
    {i \in DOMAIN p : 1000 * p[i][1] >= edit_mask_thresh * SetMax({p[j][1] : j \in DOMAIN p})}

\* variant: ">=" in place of ">"
ObjMaskGeq(p) == {i \in DOMAIN p : p[i][2] >= p[i][1]}

\* probs[..., 1] > probs[..., 0]
ObjMask(p) == {i \in DOMAIN p : p[i][2] > p[i][1]}

\* variant: the slice of the permutation is shorter than the threshold
ObjSamplesShort(oi) ==
    {S \in SUBSET Range(oi) :
        Cardinality(S) = IF Len(oi) < num_obj_voxels_thresh - 2 THEN Len(oi)
                         ELSE num_obj_voxels_thresh - 2}

\* obj_idxs[perm[:5000]] for the permutations randperm can return: every
\* selection of min(n, 5000) distinct object-dominant nodes (listed ascending;
\* the list is only ever used through "i in top_k_best_obj_idxs")
ObjSamples(oi) ==
    {S \in SUBSET Range(oi) :
        Cardinality(S) = IF Len(oi) < num_obj_voxels_thresh THEN Len(oi)
                         ELSE num_obj_voxels_thresh}

\* variant: the fallback is never taken
FallbackNever(best) == FALSE

\* "if best_voxels_edit_mask.sum() < 300"
FallbackTriggered(best) == Cardinality(best) < min_num_edit_voxels

\* variant: the smallest values come first
BeforeSmallest(vals, a, b, ties) ==
    \/ vals[a] < vals[b]
    \/ vals[a] = vals[b] /\ (IF ties = "low" THEN a < b ELSE a > b)

\* does index a come before index b in torch.topk's result
Before(vals, a, b, ties) ==
    \/ vals[a] > vals[b]
    \/ vals[a] = vals[b] /\ (IF ties = "low" THEN a < b ELSE a > b)

\* torch.topk(vals, k).indices, k <= number of values
RECURSIVE TopK(_, _, _, _)
TopK(vals, k, ties, rest) ==
    IF k = 0 THEN <<>>
    ELSE LET best == CHOOSE a \in rest : \A b \in rest \ {a} : Before(vals, a, b, ties)
         IN  <<best>> \o TopK(vals, k - 1, ties, rest \ {best})

----------------------------------------------------------------------------
(* build_graph: terminal and inter-node edges *)

Plus(a, b) == <<a[1] + b[1], a[2] + b[2], a[3] + b[3]>>

\* variant: the object list is tested first
TEdgeObjFirst(i, es, os) ==
    IF In(i, os) THEN [source |-> FALSE, sink |-> TRUE]
    ELSE IF In(i, es) THEN [source |-> TRUE, sink |-> FALSE]
    ELSE [source |-> FALSE, sink |-> FALSE]

\* variant: an "else" branch links every node that is no edit seed to the sink
TEdgeElseSink(i, es, os) ==
    IF In(i, es) THEN [source |-> TRUE, sink |-> FALSE]
    ELSE [source |-> FALSE, sink |-> TRUE]

\* variant: two independent "if"s, both terminal edges can be added
TEdgeBoth(i, es, os) == [source |-> In(i, es), sink |-> In(i, os)]

\* "if i in top_k_best_edit_idxs: add_tedge(i, inf, 0)
\*  elif i in top_k_best_obj_idxs: add_tedge(i, 0, inf)"
\* source / sink: the node has an infinite capacity from the source / to the sink
TEdge(i, es, os) ==
    IF In(i, es) THEN [source |-> TRUE, sink |-> FALSE]
    ELSE IF In(i, os) THEN [source |-> FALSE, sink |-> TRUE]
    ELSE [source |-> FALSE, sink |-> FALSE]

\* variant: every component is compared with x only
OutsideGridX(n, s) == \E k \in 1..3 : n[k] >= s[1]

\* "check for idxs outside grid": every component is compared with x, with y
\* and with z
OutsideGrid(n, s) ==
    \/ \E k \in 1..3 : n[k] >= s[1]
    \/ \E k \in 1..3 : n[k] >= s[2]
    \/ \E k \in 1..3 : n[k] >= s[3]

\* "check for negative idxs"
NegativeIdx(n) == \E k \in 1..3 : n[k] < 0

\* the body of "for n_offset in g_neighbor_offsets" for node i and one offset:
\* "skip" (a continue), "edge" (add_edge is reached; call = <<node, neighbour,
\* w>>) or the name of the statement that raises
NeighborStep(i, off, s, dens, feat, iv, dict, n_nodes) ==
    LET nidx == iv[i]
        n    == Plus(nidx, off)
        skip == [kind |-> "skip", call |-> <<>>]
    IN  IF OutsideGrid(n, s) THEN skip
        ELSE IF NegativeIdx(n) THEN skip
        ELSE IF n \notin DOMAIN dens THEN [kind |-> "densities_index", call |-> <<>>]
        ELSE IF dens[n] <= 0 THEN skip
        ELSE IF gen_id(n, s[1], s[2]) \notin DOMAIN dict
             THEN [kind |-> "idx_dict_key", call |-> <<>>]
        \* probs[nidx]: the coordinate is used as a row index into probs
        ELSE IF \E k \in 1..3 : nidx[k] >= n_nodes
             THEN [kind |-> "probs_index", call |-> <<>>]
        ELSE \* l2_probs enters the affinity with factor 0.0
             [kind |-> "edge",
              call |-> <<i, dict[gen_id(n, s[1], s[2])],
                         Affinity(Abs(Sigmoid(feat[nidx]) - Sigmoid(feat[n])))>>]

\* the loops "for i in range(num_nodes)" / "for n_offset in g_neighbor_offsets":
\* step k (from 1) is node (k - 1) \div 6 with offset number ((k - 1) % 6) + 1.
\* Result: the add_edge calls made, in order, and the statement that raised.
EdgeLoop(s, dens, feat, iv, dict, n_nodes) ==
    LET step(k) == NeighborStep((k - 1) \div 6, g_neighbor_offsets[((k - 1) % 6) + 1],
                                s, dens, feat, iv, dict, n_nodes)
        bad  == {k \in 1..(6 * n_nodes) : step(k).kind \notin {"skip", "edge"}}
        stop == IF bad = {} THEN 6 * n_nodes ELSE SetMin(bad) - 1
        ks   == SelectSeq([k \in 1..stop |-> k], LAMBDA k : step(k).kind = "edge")
    IN  [added |-> [m \in 1..Len(ks) |-> step(ks[m]).call],
         err   |-> IF bad = {} THEN "none" ELSE step(SetMin(bad)).kind]

\* variant: g.add_edge(u, v, w, 0), no reverse capacity
AddEdgeOneWay(cap, u, v, w) == [cap EXCEPT ![<<u, v>>] = @ + w]

\* g.add_edge(u, v, w, w): capacity w is added in both directions
AddEdge(cap, u, v, w) ==
    [[cap EXCEPT ![<<u, v>>] = @ + w] EXCEPT ![<<v, u>>] = @ + w]

\* the capacities of the graph after the add_edge calls from the k-th on
RECURSIVE AddEdges(_, _, _)
AddEdges(cap, calls, k) ==
    IF k > Len(calls) THEN cap
    ELSE AddEdges(AddEdge(cap, calls[k][1], calls[k][2], calls[k][3]), calls, k + 1)

\* the capacities of the graph handed to maxflow: <<u, v>> -> capacity
Capacities(calls, n_nodes) ==
    AddEdges([q \in (0..(n_nodes - 1)) \X (0..(n_nodes - 1)) |-> 0], calls, 1)

----------------------------------------------------------------------------
(* g.maxflow() and g.get_segment() of PyMaxflow (Boykov-Kolmogorov): flow is  *)
(* pushed along augmenting paths from a source-linked node to a sink-linked   *)
(* node until none is left.  The terminal links are infinite and never        *)
(* saturate.                                                                  *)

Nodes(te) == DOMAIN te
Sources(te) == {i \in DOMAIN te : te[i].source}
Sinks(te) == {i \in DOMAIN te : te[i].sink}

\* the nodes with a residual path to the sink: the sink search tree at the end
RECURSIVE ToSink(_, _, _)
ToSink(r, te, T) ==
    LET T2 == T \cup {u \in Nodes(te) : \E v \in T : r[<<u, v>>] > 0}
    IN  IF T2 = T THEN T ELSE ToSink(r, te, T2)

\* the nodes with a residual path from the source
RECURSIVE FromSource(_, _, _)
FromSource(r, te, S) ==
    LET S2 == S \cup {v \in Nodes(te) : \E u \in S : r[<<u, v>>] > 0}
    IN  IF S2 = S THEN S ELSE FromSource(r, te, S2)

\* layers of a breadth-first search backwards from the sink-linked nodes
RECURSIVE Layers(_, _, _, _)
Layers(r, te, seen, ls) ==
    LET last == ls[Len(ls)]
        nxt  == {u \in Nodes(te) \ seen : \E v \in last : r[<<u, v>>] > 0}
    IN  IF nxt = {} THEN ls ELSE Layers(r, te, seen \cup nxt, Append(ls, nxt))

\* a shortest augmenting path, as a sequence of nodes; <<>> if there is none
RECURSIVE Descend(_, _, _, _)
Descend(r, ls, u, k) ==
    IF k = 1 THEN <<u>>
    ELSE LET v == CHOOSE v \in ls[k - 1] : r[<<u, v>>] > 0
         IN  <<u>> \o Descend(r, ls, v, k - 1)

AugmentingPath(r, te) ==
    IF Sinks(te) = {} THEN <<>>
    ELSE LET ls == Layers(r, te, Sinks(te), <<Sinks(te)>>)
             ks == {k \in 2..Len(ls) : ls[k] \cap Sources(te) # {}}
         IN  IF ks = {} THEN <<>>
             ELSE LET k == SetMin(ks)
                      u == SetMin(ls[k] \cap Sources(te))
                  IN  Descend(r, ls, u, k)

Bottleneck(r, p) == SetMin({r[<<p[k], p[k + 1]>>] : k \in 1..(Len(p) - 1)})

\* push b along the path p from its k-th node on
RECURSIVE Push(_, _, _, _)
Push(r, p, b, k) ==
    IF k >= Len(p) THEN r
    ELSE Push([[r EXCEPT ![<<p[k], p[k + 1]>>] = @ - b]
                  EXCEPT ![<<p[k + 1], p[k]>>] = @ + b], p, b, k + 1)

\* variant: the search stops after the first augmenting path
MaxFlowOnePath(r, te, f) ==
    LET p == AugmentingPath(r, te)
    IN  IF Len(p) < 2 THEN [res |-> r, flow |-> f]
        ELSE [res |-> Push(r, p, Bottleneck(r, p), 1), flow |-> f + Bottleneck(r, p)]

\* g.maxflow(): [res |-> residual capacities, flow |-> the flow value]
RECURSIVE MaxFlow(_, _, _)
MaxFlow(r, te, f) ==
    LET p == AugmentingPath(r, te)
    IN  IF Len(p) < 2 THEN [res |-> r, flow |-> f]
        ELSE MaxFlow(Push(r, p, Bottleneck(r, p), 1), te, f + Bottleneck(r, p))

\* [g.get_segment(nodes[i]) for i in range(num_nodes)], with get_segment(i) =
\* what_segment(i, default_segm = SOURCE): SINK (1) for a node of the sink
\* tree, SOURCE (0) for a node of the source tree and for a node of neither
Segments(res, te) ==
    LET T == ToSink(res, te, Sinks(te))
    IN  [i \in Nodes(te) |-> IF i \in T THEN OBJECT ELSE EDIT]

----------------------------------------------------------------------------
(* set_and_visualize_refined_grid *)

\* "torch.ones_like(attn) * -20.0"
BACKGROUND == -20
\* "gt_grid[nonzero_densities] = -10.0"
INSIDE == -10
\* "gt_grid[...] = 0.0"
SELECTED == 0

\* the "greater than" grid assigned first
GtGrid(ea, oa) ==
    [c \in DOMAIN ea |-> IF ea[c] > oa[c] THEN SELECTED ELSE BACKGROUND]

\* variant: the grid is updated in place, starting from the attention values
GraphCutGridInPlace(ea, dens, s, ids, idxs) ==
    LET nonzero_densities == NonZeroDensities(dens, s)
        edit_ids == {idxs[i] : i \in {j \in DOMAIN ids : ids[j] = 0}}
    IN  [c \in DOMAIN ea |->
            IF c \in edit_ids THEN SELECTED
            ELSE IF c \in nonzero_densities THEN INSIDE
            ELSE ea[c]]

\* the graph-cut grid assigned last; ids = segments, idxs = idx_values
GraphCutGrid(ea, dens, s, ids, idxs) ==
    LET nonzero_densities == NonZeroDensities(dens, s)
        edit_ids == {idxs[i] : i \in {j \in DOMAIN ids : ids[j] = 0}}
    IN  [c \in DOMAIN ea |->
            IF c \in edit_ids THEN SELECTED
            ELSE IF c \in nonzero_densities THEN INSIDE
            ELSE BACKGROUND]

----------------------------------------------------------------------------
(* Inputs *)

Shapes == {<<2, 2, 2>>, <<2, 2, 1>>, <<1, 2, 2>>, <<2, 1, 1>>}

\* Fields take the values 0 and 1: for a raw density, 1 stands for a positive
\* density and 0 for a density <= 0.

Corner(s) == <<0, 0, 0>>
Opposite(s) == <<s[1] - 1, s[2] - 1, s[3] - 1>>
Inner(s) == <<0, s[2] - 1, s[3] - 1>>
Half(s, k) == {c \in Coords(s) : c[k] = 0}

\* the field that is 1 on the region R and 0 elsewhere
Field(s, R) == [c \in Coords(s) |-> IF c \in R THEN 1 ELSE 0]

\* where the density is positive
DensityRegions(s) ==
    {{}, Coords(s), {Corner(s)}, {Opposite(s)}, {Corner(s), Opposite(s)},
     Coords(s) \ {Inner(s)}, Half(s, 1), Coords(s) \ Half(s, 1), Half(s, 2)}

\* where the raw feature is 1
FeatureRegions(s) ==
    {{}, {Corner(s)}, Half(s, 1), Half(s, 2), Half(s, 3)}

\* where an attention value is 1
AttnRegions(s) ==
    {{}, Coords(s)}
    \cup {{c} : c \in {Corner(s), Opposite(s), Inner(s)}}
    \cup {Coords(s) \ {c} : c \in {Corner(s), Opposite(s), Inner(s)}}
    \cup {Half(s, k) : k \in 1..3}

\* the defaults of the options --edit_mask_thresh, --min_num_edit_voxels,
\* --top_k_edit_thresh, --top_k_obj_thresh and --num_obj_voxels_thresh
DefaultConfig ==
    [edit_mask_thresh      |-> edit_mask_thresh,
     min_num_edit_voxels   |-> min_num_edit_voxels,
     top_k_edit_thresh     |-> top_k_edit_thresh,
     top_k_obj_thresh      |-> top_k_obj_thresh,
     num_obj_voxels_thresh |-> num_obj_voxels_thresh]

\* the defaults, and the command lines that set one option to another value
Configs ==
    {DefaultConfig,
     [DefaultConfig EXCEPT !.edit_mask_thresh = 500],
     [DefaultConfig EXCEPT !.min_num_edit_voxels = @ - 1],
     [DefaultConfig EXCEPT !.top_k_edit_thresh = @ + 1],
     [DefaultConfig EXCEPT !.top_k_obj_thresh = @ - 1],
     [DefaultConfig EXCEPT !.num_obj_voxels_thresh = @ - 1]}

NoPrev == [valid |-> FALSE, edit |-> {}, obj |-> {}, segments |-> Empty, flow |-> 0]

InitGraph ==
    /\ num_nodes = 0
    /\ idx_values = Empty
    /\ idx_dict = Empty
    /\ probs = Empty
    /\ best_voxels_edit_mask = {}
    /\ obj_idxs = <<>>
    /\ top_k_best_edit_idxs = <<>>
    /\ top_k_best_obj_idxs = <<>>
    /\ tedges = Empty
    /\ added = <<>>
    /\ flow = 0
    /\ segments = Empty

\* vol_mod_output is loaded from the same checkpoint as vol_mod_edit
InitControl ==
    /\ out_attn = edit_attn
    /\ topk_ties \in {"low", "high"}
    /\ pc = "entry"
    /\ err = "none"
    /\ run = 1
    /\ prev = NoPrev
    /\ InitGraph

\* int(num_train_timesteps * ratio) for a ratio in 1e-4
StepOf(n, ratio) == (n * ratio) \div 10000

\* StableDiffusion.__init__: the schedule fields
Constructed(start, freq, gamma, n) ==
    /\ t_sched_start = start
    /\ t_sched_freq = freq
    /\ t_sched_gamma = gamma
    /\ num_train_timesteps = n
    /\ min_step = StepOf(n, min_step_ratio)
    /\ max_step_ratio = init_max_step_ratio
    /\ max_step = StepOf(n, max_step_ratio)
    /\ global_step = -1
    /\ num_calls = 0

\* the guidance object built with the defaults of __init__ and the 1000
\* training timesteps of the Stable Diffusion schedulers
InitGuidance == Constructed(1500, 500, 10, 1000)

\* the two models agree on densities and features, all grids have one shape
InitMatching ==
    /\ densities \in {Field(shape, R) : R \in DensityRegions(shape)}
    /\ features \in {Field(shape, R) : R \in FeatureRegions(shape)}
    /\ obj_densities = densities
    /\ obj_features = features
    /\ edit_attn \in {Field(shape, R) : R \in AttnRegions(shape)}
    /\ obj_attn \in {Field(shape, R) : R \in AttnRegions(shape)}

\* edit attention (1 or 2) above object attention (0) at every voxel
InitEditAbove ==
    /\ densities \in {Field(shape, R) : R \in DensityRegions(shape)}
    /\ features = Field(shape, {})
    /\ obj_densities = densities
    /\ obj_features = features
    /\ edit_attn \in {[c \in Coords(shape) |-> 1 + Field(shape, R)[c]] :
                        R \in AttnRegions(shape) \ {{}}}
    /\ obj_attn = Field(shape, {})

\* the two attention grids have different shapes
InitAttnShapes ==
    /\ densities \in {Field(shape, R) : R \in DensityRegions(shape)}
    /\ features = Field(shape, {})
    /\ obj_densities = densities
    /\ obj_features = features
    /\ \E s1 \in Shapes, s2 \in Shapes :
          /\ s1 # s2
          /\ edit_attn = Field(s1, {})
          /\ obj_attn = Field(s2, {})

\* the densities or the features of the two models differ
InitGridsDiffer ==
    /\ densities \in {Field(shape, R) : R \in DensityRegions(shape)}
    /\ features \in {Field(shape, R) : R \in FeatureRegions(shape)}
    /\ obj_densities \in {Field(shape, R) : R \in {{}, Coords(shape), {Corner(shape)}}}
    /\ obj_features \in {Field(shape, R) : R \in {{}, {Corner(shape)}}}
    /\ obj_densities # densities \/ obj_features # features
    /\ edit_attn = Field(shape, {})
    /\ obj_attn = Field(shape, {})

Init ==
    /\ shape \in Shapes
    /\ config = DefaultConfig
    /\ \/ InitMatching
       \/ InitEditAbove
       \/ InitAttnShapes
       \/ InitGridsDiffer
    /\ InitControl
    /\ InitGuidance

\* inputs of the runs that are repeated
InitTwice ==
    /\ shape \in Shapes
    /\ config = DefaultConfig
    /\ densities \in {Field(shape, R) : R \in {Coords(shape), Half(shape, 1)}}
    /\ features = Field(shape, {Corner(shape)})
    /\ obj_densities = densities
    /\ obj_features = features
    /\ edit_attn \in {Field(shape, R) : R \in AttnRegions(shape)}
    /\ obj_attn \in {Field(shape, R) : R \in AttnRegions(shape)}
    /\ InitControl
    /\ InitGuidance

\* inputs of the runs started with different command lines
InitConfig ==
    /\ shape \in Shapes
    /\ config \in Configs
    /\ densities \in {Field(shape, R) : R \in {Coords(shape), Half(shape, 1)}}
    /\ features = Field(shape, {Corner(shape)})
    /\ obj_densities = densities
    /\ obj_features = features
    /\ edit_attn \in {Field(shape, R) : R \in AttnRegions(shape)}
    /\ obj_attn \in {Field(shape, R) : R \in AttnRegions(shape)}
    /\ InitControl
    /\ InitGuidance

----------------------------------------------------------------------------
(* get_edit_region *)

Raise(e) == pc' = "raised" /\ err' = e

\* variant: only the densities are compared
EnterDensitiesOnly ==
    /\ pc = "entry"
    /\ IF obj_densities # densities THEN Raise("assert_densities")
       ELSE pc' = "nodes" /\ err' = err
    /\ UNCHANGED <<sdvars, inputs, out_attn, run, prev, graphvars>>

\* the two asserts at entry, then the detach / sigmoid of the inputs
Enter ==
    /\ pc = "entry"
    /\ IF obj_densities # densities THEN Raise("assert_densities")
       ELSE IF obj_features # features THEN Raise("assert_features")
       ELSE pc' = "nodes" /\ err' = err
    /\ UNCHANGED <<sdvars, inputs, out_attn, run, prev, graphvars>>

\* build_graph up to the idx_dict loop
AddNodes ==
    /\ pc = "nodes"
    /\ LET mask == NonZeroDensities(densities, shape)
           iv   == IdxValues(mask, shape)
       IN  /\ num_nodes' = Cardinality(mask)
           /\ idx_values' = iv
           /\ idx_dict' = IdxDict(iv, shape)
    /\ pc' = "seeds"
    /\ UNCHANGED <<sdvars, inputs, out_attn, run, prev, err, probs, best_voxels_edit_mask,
                   obj_idxs, top_k_best_edit_idxs, top_k_best_obj_idxs, tedges,
                   added, flow, segments>>

\* build_graph from "calc attn diff" to the fallback
SelectSeeds ==
    /\ pc = "seeds"
    /\ IF DOMAIN edit_attn # Coords(shape)
       THEN \* edit_attn[non_zero_densities]: the mask does not fit the tensor
            /\ Raise("edit_attn_mask")
            /\ UNCHANGED <<probs, best_voxels_edit_mask, obj_idxs,
                           top_k_best_edit_idxs, top_k_best_obj_idxs>>
       ELSE IF DOMAIN obj_attn # Coords(shape)
       THEN /\ Raise("obj_attn_mask")
            /\ UNCHANGED <<probs, best_voxels_edit_mask, obj_idxs,
                           top_k_best_edit_idxs, top_k_best_obj_idxs>>
       ELSE IF num_nodes = 0
       THEN \* torch.max of an empty tensor
            /\ Raise("max_empty")
            /\ UNCHANGED <<probs, best_voxels_edit_mask, obj_idxs,
                           top_k_best_edit_idxs, top_k_best_obj_idxs>>
       ELSE LET p    == Probs(idx_values, edit_attn, obj_attn)
                best == BestVoxelsEditMask(p)
                oi   == Ascending(ObjMask(p))
                ev   == [i \in DOMAIN idx_values |-> edit_attn[idx_values[i]]]
                ov   == [i \in DOMAIN idx_values |-> obj_attn[idx_values[i]]]
            IN  /\ probs' = p
                /\ best_voxels_edit_mask' = best
                /\ obj_idxs' = oi
                /\ \E S \in ObjSamples(oi) :
                      IF FallbackTriggered(best)
                      THEN IF num_nodes < top_k_edit_thresh
                           THEN \* topk: k out of range
                                /\ Raise("topk_edit")
                                /\ top_k_best_edit_idxs' = Ascending(best)
                                /\ top_k_best_obj_idxs' = Ascending(S)
                           ELSE IF num_nodes < top_k_obj_thresh
                           THEN /\ Raise("topk_obj")
                                /\ top_k_best_edit_idxs' =
                                      TopK(ev, top_k_edit_thresh, topk_ties, DOMAIN ev)
                                /\ top_k_best_obj_idxs' = Ascending(S)
                           ELSE /\ pc' = "edges" /\ err' = err
                                /\ top_k_best_edit_idxs' =
                                      TopK(ev, top_k_edit_thresh, topk_ties, DOMAIN ev)
                                /\ top_k_best_obj_idxs' =
                                      TopK(ov, top_k_obj_thresh, topk_ties, DOMAIN ov)
                      ELSE /\ pc' = "edges" /\ err' = err
                           /\ top_k_best_edit_idxs' = Ascending(best)
                           /\ top_k_best_obj_idxs' = Ascending(S)
    /\ UNCHANGED <<sdvars, inputs, out_attn, run, prev, num_nodes, idx_values, idx_dict,
                   tedges, added, flow, segments>>

\* build_graph: the loop "for i in range(num_nodes)"
BuildEdges ==
    /\ pc = "edges"
    /\ LET acc == EdgeLoop(shape, densities, features, idx_values, idx_dict, num_nodes)
       IN  /\ tedges' = [i \in DOMAIN idx_values |->
                           TEdge(i, top_k_best_edit_idxs, top_k_best_obj_idxs)]
           /\ added' = acc.added
           /\ IF acc.err # "none" THEN Raise(acc.err)
              ELSE pc' = "solve" /\ err' = err
    /\ UNCHANGED <<sdvars, inputs, out_attn, run, prev, num_nodes, idx_values, idx_dict,
                   probs, best_voxels_edit_mask, obj_idxs, top_k_best_edit_idxs,
                   top_k_best_obj_idxs, flow, segments>>

\* build_graph: g.maxflow() and the get_segment loop
Solve ==
    /\ pc = "solve"
    /\ LET mf == MaxFlow(Capacities(added, num_nodes), tedges, 0)
       IN  /\ flow' = mf.flow
           /\ segments' = Segments(mf.res, tedges)
    /\ pc' = "baseline"
    /\ UNCHANGED <<sdvars, inputs, out_attn, run, prev, err, num_nodes, idx_values,
                   idx_dict, probs, best_voxels_edit_mask, obj_idxs,
                   top_k_best_edit_idxs, top_k_best_obj_idxs, tedges, added>>

\* set_and_visualize_refined_grid: the "greater than" grid
SetBaseline ==
    /\ pc = "baseline"
    /\ out_attn' = GtGrid(edit_attn, obj_attn)
    /\ pc' = "materialize"
    /\ UNCHANGED <<sdvars, inputs, run, prev, err, graphvars>>

\* variant: the graph-cut grid is assigned to vol_mod_edit's attention field
MaterializeIntoEdit ==
    /\ pc = "materialize"
    /\ edit_attn' = GraphCutGrid(edit_attn, densities, shape, segments, idx_values)
    /\ pc' = "done"
    /\ UNCHANGED <<sdvars, shape, densities, features, obj_densities,
                   obj_features, obj_attn, topk_ties, config, out_attn, run, prev,
                   err, graphvars>>

\* set_and_visualize_refined_grid: the graph-cut grid
Materialize ==
    /\ pc = "materialize"
    /\ out_attn' = GraphCutGrid(edit_attn, densities, shape, segments, idx_values)
    /\ pc' = "done"
    /\ UNCHANGED <<sdvars, inputs, run, prev, err, graphvars>>

\* get_edit_region is called again on the same inputs
Rerun ==
    /\ pc = "done"
    /\ run < MaxRuns
    /\ prev' = [valid |-> TRUE,
                edit |-> Range(top_k_best_edit_idxs),
                obj |-> Range(top_k_best_obj_idxs),
                segments |-> segments,
                flow |-> flow]
    /\ run' = run + 1
    /\ pc' = "entry"
    /\ num_nodes' = 0
    /\ idx_values' = Empty
    /\ idx_dict' = Empty
    /\ probs' = Empty
    /\ best_voxels_edit_mask' = {}
    /\ obj_idxs' = <<>>
    /\ top_k_best_edit_idxs' = <<>>
    /\ top_k_best_obj_idxs' = <<>>
    /\ tedges' = Empty
    /\ added' = <<>>
    /\ flow' = 0
    /\ segments' = Empty
    /\ UNCHANGED <<sdvars, inputs, out_attn, err>>

Next ==
    \/ Enter
    \/ AddNodes
    \/ SelectSeeds
    \/ BuildEdges
    \/ Solve
    \/ SetBaseline
    \/ Materialize

Spec == Init /\ [][Next]_vars

\* the statement in control moves on
Advance ==
    /\ pc \notin {"done", "raised"}
    /\ pc' \in {"entry", "nodes", "seeds", "edges", "solve", "baseline",
                "materialize", "done", "raised"} \ {pc}

\* get_edit_region is straight-line code run by one thread: a call that has
\* started keeps taking steps until it returns or raises
SpecLive == Spec /\ WF_pc(Advance)

NextTwice == Next \/ Rerun

SpecTwice == InitTwice /\ [][NextTwice]_vars

SpecConfig == InitConfig /\ [][Next]_vars

----------------------------------------------------------------------------
(* StableDiffusion.train_step: the schedule of the largest timestep.  Ratios   *)
(* are in 1e-4 and t_sched_gamma in 1e-1; products are cut to 1e-4.             *)

\* variant: the scaled ratio is not held at 0.22
ScheduledRatioNoFloor(ratio, gamma) == (ratio * gamma) \div 10

\* "self.max_step_ratio * self.t_sched_gamma", then "if self.max_step_ratio <
\* 0.22: self.max_step_ratio = 0.22"
ScheduledRatio(ratio, gamma) ==
    LET scaled == (ratio * gamma) \div 10
    IN  IF scaled < max_step_ratio_floor THEN max_step_ratio_floor ELSE scaled

\* "global_step >= self.t_sched_start and global_step % self.t_sched_freq == 0"
Scheduled(g) == g >= t_sched_start /\ g % t_sched_freq = 0

\* train_step, up to the assignment of max_step; the rest of the method draws
\* the timestep and computes the loss without writing a schedule field
TrainStep ==
    /\ num_calls < MaxCalls
    /\ \E g \in (-1)..MaxGlobalStep :
          /\ global_step' = g
          /\ max_step_ratio' = IF Scheduled(g)
                               THEN ScheduledRatio(max_step_ratio, t_sched_gamma)
                               ELSE max_step_ratio
    /\ max_step' = StepOf(num_train_timesteps, max_step_ratio')
    /\ num_calls' = num_calls + 1
    /\ UNCHANGED <<t_sched_start, t_sched_freq, t_sched_gamma,
                   num_train_timesteps, min_step>>
    /\ UNCHANGED <<inputs, out_attn, pc, err, run, prev, graphvars>>

\* guidance objects built with several schedules; no refinement is under way
InitSD ==
    /\ \E start \in {0, 2}, freq \in {1, 2, 3}, gamma \in {0, 5, 9, 10, 15},
          n \in {1000, 50} : Constructed(start, freq, gamma, n)
    /\ shape = <<2, 1, 1>>
    /\ config = DefaultConfig
    /\ densities = Field(shape, {})
    /\ features = Field(shape, {})
    /\ obj_densities = densities
    /\ obj_features = features
    /\ edit_attn = Field(shape, {})
    /\ obj_attn = Field(shape, {})
    /\ out_attn = edit_attn
    /\ topk_ties = "low"
    /\ pc = "entry"
    /\ err = "none"
    /\ run = 1
    /\ prev = NoPrev
    /\ InitGraph

NextSD == TrainStep

SpecSD == InitSD /\ [][NextSD]_vars

----------------------------------------------------------------------------
(* Claims *)

EditSeeds == Range(top_k_best_edit_idxs)
ObjSeeds == Range(top_k_best_obj_idxs)

\* seed selection has completed
Seeded == pc \in {"edges", "solve", "baseline", "materialize", "done"}
\* the graph is complete
Built == pc \in {"solve", "baseline", "materialize", "done"}
\* build_graph has returned
Solved == pc \in {"baseline", "materialize", "done"}

\* the inputs meet the preconditions of get_edit_region
Matching ==
    /\ obj_densities = densities
    /\ obj_features = features
    /\ DOMAIN edit_attn = Coords(shape)
    /\ DOMAIN obj_attn = Coords(shape)

\* C1, as stated: after the solve every edit seed is labelled EDIT and every
\* object seed is labelled OBJECT, also when the two seed lists share a voxel.
C1_SeedRespect ==
    Solved => /\ \A i \in EditSeeds : segments[i] = EDIT
              /\ \A i \in ObjSeeds : segments[i] = OBJECT

\* C1, amended: after the solve every edit seed is labelled EDIT and every
\* object seed that is not also an edit seed is labelled OBJECT.
C1_SeedRespectDisjoint ==
    Solved => /\ \A i \in EditSeeds : segments[i] = EDIT
              /\ \A i \in ObjSeeds \ EditSeeds : segments[i] = OBJECT

\* a solved run whose seed lists share a voxel and that has a pure object seed
C1_Witness ==
    /\ Solved
    /\ EditSeeds \cap ObjSeeds # {}
    /\ ObjSeeds \ EditSeeds # {}
    /\ flow > 0

\* the active voxels of the specification: the maximum of the raw density over
\* the 3x3x3 neighbourhood is positive
SpecActive ==
    {c \in Coords(shape) :
        \E d \in Coords(shape) :
            /\ \A k \in 1..3 : Abs(d[k] - c[k]) <= 1
            /\ densities[d] > 0}

\* C2: the labelling returned by build_graph has exactly one entry per active
\* voxel, every entry is EDIT or OBJECT, and no inactive voxel appears in it.
C2_PartitionComplete ==
    Solved =>
        /\ DOMAIN segments = DOMAIN idx_values
        /\ \A c \in SpecActive : Cardinality({i \in DOMAIN idx_values : idx_values[i] = c}) = 1
        /\ \A i \in DOMAIN segments :
              /\ segments[i] \in {EDIT, OBJECT}
              /\ idx_values[i] \in SpecActive

\* C3: no node of the built graph has both an infinite source capacity and an
\* infinite sink capacity; a voxel in both seed lists gets the source terminal only.
C3_SeedsDisjoint ==
    Built =>
        \A i \in DOMAIN tedges :
            /\ ~(tedges[i].source /\ tedges[i].sink)
            /\ i \in EditSeeds \cap ObjSeeds => tedges[i].source /\ ~tedges[i].sink

\* a built graph whose seed lists share a voxel
C3_Witness == Built /\ EditSeeds \cap ObjSeeds # {}

Min(a, b) == IF a < b THEN a ELSE b

\* C4: whenever fewer than min_num_edit_voxels nodes pass the primary rule,
\* seed selection does not raise and ends with top_k_edit_thresh edit seeds, or
\* with all nodes as edit seeds when there are fewer nodes than that.
C4_FallbackNeverRaises ==
    (probs # Empty /\ Cardinality(best_voxels_edit_mask) < min_num_edit_voxels) =>
        /\ err = "none"
        /\ Cardinality(EditSeeds) = Min(top_k_edit_thresh, num_nodes)

\* C5: with every density <= 0 (and inputs that meet the preconditions) no
\* exception is raised, the labelling is empty and the output grid is
\* BACKGROUND everywhere.
C5_EmptyActiveSet ==
    (Matching /\ \A c \in Coords(shape) : densities[c] <= 0) =>
        /\ err = "none"
        /\ pc = "done" => /\ segments = Empty
                          /\ \A c \in DOMAIN out_attn : out_attn[c] = BACKGROUND

\* C6: when the two attention grids differ in shape the call raises at entry:
\* it never gets past the entry checks and no node or edge is created.
C6_ShapeCheckedAtEntry ==
    DOMAIN edit_attn # DOMAIN obj_attn =>
        /\ pc \in {"entry", "raised"}
        /\ num_nodes = 0
        /\ added = <<>>

\* no random subsampling takes effect: the fallback is used, or the
\* object-dominant set is within the threshold
NoSubsampling ==
    \/ Cardinality(best_voxels_edit_mask) < min_num_edit_voxels
    \/ Len(obj_idxs) <= num_obj_voxels_thresh

\* C7: two runs on the same inputs in which no random subsampling takes effect
\* end with the same seed sets, the same labelling and the same flow value.
C7_Determinism ==
    (prev.valid /\ Solved /\ NoSubsampling) =>
        /\ prev.edit = EditSeeds
        /\ prev.obj = ObjSeeds
        /\ prev.segments = segments
        /\ prev.flow = flow

\* a second run that took the primary rule with object seeds and a cut to find
C7_Witness ==
    /\ prev.valid
    /\ pc = "done"
    /\ Cardinality(best_voxels_edit_mask) >= min_num_edit_voxels
    /\ ObjSeeds # {}
    /\ Len(obj_idxs) <= num_obj_voxels_thresh
    /\ flow > 0

\* edit attention is larger than object attention at every voxel
EditAbove ==
    /\ DOMAIN edit_attn = DOMAIN obj_attn
    /\ \A c \in DOMAIN edit_attn : edit_attn[c] > obj_attn[c]

Residual == MaxFlow(Capacities(added, num_nodes), tedges, 0).res

\* C9: after the solve a node is labelled EDIT iff it is reachable from the
\* source in the residual graph, and every other node is labelled OBJECT.
C9_EditIffSourceReachable ==
    pc = "baseline" =>
        \A i \in DOMAIN segments :
            segments[i] = EDIT <=> i \in FromSource(Residual, tedges, Sources(tedges))

\* sum of the capacities of a set of ordered pairs
RECURSIVE SumOver(_, _)
SumOver(cap, Q) ==
    IF Q = {} THEN 0
    ELSE LET q == CHOOSE q \in Q : TRUE IN cap[q] + SumOver(cap, Q \ {q})

\* total capacity of the edges from E to the other nodes
CutCapacity(cap, E) ==
    SumOver(cap, {q \in DOMAIN cap : q[1] \in E /\ q[2] \notin E})

\* C10: the partition returned has the least crossing capacity among all
\* labellings that keep the source-linked seeds EDIT and the sink-linked seeds
\* OBJECT, and the flow value equals that capacity.
C10_MinCut ==
    pc = "baseline" =>
        LET cap  == Capacities(added, num_nodes)
            E0   == {i \in DOMAIN segments : segments[i] = EDIT}
            free == DOMAIN tedges \ (Sources(tedges) \cup Sinks(tedges))
        IN  /\ flow = CutCapacity(cap, E0)
            /\ \A F \in SUBSET free :
                  CutCapacity(cap, E0) <= CutCapacity(cap, Sources(tedges) \cup F)

\* a cut with positive flow that splits the nodes that are not seeds
C10_Witness ==
    /\ pc = "baseline"
    /\ flow > 0
    /\ \E i, j \in DOMAIN segments \ (EditSeeds \cup ObjSeeds) :
          segments[i] = EDIT /\ segments[j] = OBJECT

\* the node of a coordinate
NodeAt(c) == CHOOSE i \in DOMAIN idx_values : idx_values[i] = c

\* the point reflection through the centre of the grid
Mirror(c) == <<shape[1] - 1 - c[1], shape[2] - 1 - c[2], shape[3] - 1 - c[3]>>

\* the corners of the grid
Corners == {c \in Coords(shape) : \A k \in 1..3 : c[k] \in {0, shape[k] - 1}}

\* Scenario A: every voxel of the grid is active, the features are uniform, and
\* the seed lists assigned are one edit seed at a corner and one object seed at
\* the opposite corner.  Its 27 voxels are fewer than top_k_edit_thresh (300).
ScenarioA ==
    /\ Matching
    /\ SpecActive = Coords(shape)
    /\ num_nodes = Cardinality(Coords(shape))
    /\ \A c, d \in Coords(shape) : features[c] = features[d]
    /\ probs # Empty
    /\ \E c \in Corners :
          /\ Mirror(c) # c
          /\ EditSeeds = {NodeAt(c)}
          /\ ObjSeeds = {NodeAt(Mirror(c))}

\* C11: in Scenario A the segmentation completes (nothing raises) and the
\* labelling is symmetric under the point reflection that swaps the two seed
\* corners: a voxel is EDIT iff its mirror image is OBJECT.
C11_SymmetricCut ==
    ScenarioA =>
        /\ err = "none"
        /\ Solved =>
              \A i \in DOMAIN segments :
                  segments[i] = EDIT <=> segments[NodeAt(Mirror(idx_values[i]))] = OBJECT

\* the coordinates of the nodes labelled EDIT
EditCoords == {idx_values[i] : i \in {j \in DOMAIN segments : segments[j] = EDIT}}

\* the coordinates that have a node
NodeCoords == {idx_values[i] : i \in DOMAIN idx_values}

\* C12: the grid left in vol_mod_output's attention field holds SELECTED (0) at
\* exactly the coordinates of the nodes labelled EDIT and BACKGROUND (-20) at
\* every other voxel.
C12_MaterializedOutput ==
    pc = "done" =>
        /\ DOMAIN out_attn = Coords(shape)
        /\ \A c \in Coords(shape) :
              out_attn[c] = IF c \in EditCoords THEN SELECTED ELSE BACKGROUND

\* the primary edit set under the configured edit_mask_thresh
ConfiguredBest ==
    {i \in DOMAIN probs :
        1000 * probs[i][1] >= config.edit_mask_thresh * SetMax({probs[j][1] : j \in DOMAIN probs})}

\* C13: seed selection uses the configured thresholds: the primary set is cut
\* at config.edit_mask_thresh, the fallback is taken iff that set has fewer than
\* config.min_num_edit_voxels nodes and then yields config.top_k_edit_thresh
\* edit and config.top_k_obj_thresh object seeds, and otherwise the object
\* sample is capped at config.num_obj_voxels_thresh.
C13_ConfigHonoured ==
    Seeded =>
        IF Cardinality(ConfiguredBest) < config.min_num_edit_voxels
        THEN /\ Cardinality(EditSeeds) = config.top_k_edit_thresh
             /\ Cardinality(ObjSeeds) = config.top_k_obj_thresh
        ELSE /\ EditSeeds = ConfiguredBest
             /\ Cardinality(ObjSeeds) = Min(Len(obj_idxs), config.num_obj_voxels_thresh)

\* the ordered pairs of face-adjacent voxels of the grid that both have a node
ActivePairs ==
    {P \in NodeCoords \X NodeCoords :
        \E k \in 1..Len(g_neighbor_offsets) : P[2] = Plus(P[1], g_neighbor_offsets[k])}

\* number of endpoints of a pair with positive raw density
PosCount(P) == Cardinality({k \in 1..2 : densities[P[k]] > 0})

\* L2 distance of the activated features of a pair, in 1e-4
Dist(P) == Abs(Sigmoid(features[P[1]]) - Sigmoid(features[P[2]]))

\* total capacity between the nodes of a pair
TotalCap(cap, P) == cap[<<NodeAt(P[1]), NodeAt(P[2])>>]

\* C14: of two adjacent pairs of active voxels with the same densities, the
\* pair with the smaller feature distance has the strictly larger total edge
\* capacity, and pairs at the same feature distance have the same capacity
\* whatever their attention values.
C14_MonotonicAffinity ==
    pc = "solve" =>
        LET cap == Capacities(added, num_nodes)
        IN  \A P, Q \in ActivePairs :
                PosCount(P) = PosCount(Q) =>
                    /\ Dist(P) < Dist(Q) => TotalCap(cap, P) > TotalCap(cap, Q)
                    /\ Dist(P) = Dist(Q) => TotalCap(cap, P) = TotalCap(cap, Q)

\* C15: when get_edit_region has returned, the output attention field is the
\* graph-cut grid as a whole: over the whole grid, SELECTED at the nodes
\* labelled EDIT, INSIDE at the other nodes and BACKGROUND elsewhere, whatever
\* the baseline grid or the attention held before the call had at a voxel.
C15_FullyOverwritten ==
    pc = "done" =>
        /\ DOMAIN out_attn = Coords(shape)
        /\ \A c \in Coords(shape) :
              out_attn[c] = IF c \in EditCoords THEN SELECTED
                            ELSE IF c \in NodeCoords THEN INSIDE
                            ELSE BACKGROUND

\* a returned call whose baseline grid had SELECTED at a voxel that did not
\* stay SELECTED and BACKGROUND at a voxel that did not stay BACKGROUND, with a
\* voxel outside the node set
C15_Witness ==
    /\ pc = "done"
    /\ \E c \in Coords(shape) :
          GtGrid(edit_attn, obj_attn)[c] = SELECTED /\ out_attn[c] # SELECTED
    /\ \E c \in Coords(shape) :
          GtGrid(edit_attn, obj_attn)[c] = BACKGROUND /\ out_attn[c] # BACKGROUND
    /\ NodeCoords # Coords(shape)

\* C16: no step of get_edit_region changes the shape, the densities, the
\* features or the attention fields of vol_mod_edit and vol_mod_object.
C16_InputsNotMutated ==
    [][UNCHANGED <<shape, densities, features, obj_densities, obj_features,
                   edit_attn, obj_attn>>]_vars

\* a call that ran to the end and left a grid in vol_mod_output that differs
\* from the attention field of vol_mod_edit
C16_Witness ==
    /\ pc = "done"
    /\ num_nodes > 0
    /\ out_attn # edit_attn

\* g.add_nodes and the idx_dict loop have run
NodesAdded ==
    \/ pc \in {"seeds", "edges", "solve", "baseline", "materialize", "done"}
    \/ pc = "raised" /\ err \notin {"assert_densities", "assert_features"}

\* C17: build_graph creates a node for a voxel iff the maximum raw density over
\* the voxel's 3x3x3 neighbourhood (all three axes) is strictly positive.
C17_ActiveDefinition ==
    NodesAdded => NodeCoords = SpecActive

Adjacent(a, b) ==
    \E k \in 1..Len(g_neighbor_offsets) : b = Plus(a, g_neighbor_offsets[k])

\* an add_edge call joined the nodes of a and b
Joined(a, b) ==
    /\ a \in NodeCoords
    /\ b \in NodeCoords
    /\ \E m \in 1..Len(added) :
          {added[m][1], added[m][2]} = {NodeAt(a), NodeAt(b)}

\* C19: in the built graph two face-adjacent voxels of the grid are joined by an
\* edge iff both have nodes.
C19_EdgeIffBothActive ==
    Built =>
        \A a, b \in Coords(shape) :
            Adjacent(a, b) => (Joined(a, b) <=> (a \in NodeCoords /\ b \in NodeCoords))

\* C20: in the neighbour loop a neighbour coordinate is skipped by the bounds
\* checks iff one of its components is negative or is >= the grid size along
\* that same axis, i.e. iff it lies outside the grid.
C20_BoundsHandling ==
    Built =>
        \A i \in DOMAIN idx_values : \A k \in 1..Len(g_neighbor_offsets) :
            LET n == Plus(idx_values[i], g_neighbor_offsets[k])
            IN  (OutsideGrid(n, shape) \/ NegativeIdx(n)) <=> n \notin Coords(shape)

\* the ordered pairs of face-adjacent voxels whose nodes an add_edge call joined
JoinedPairs == {P \in ActivePairs : Joined(P[1], P[2])}

\* C21: for every pair of adjacent nodes joined in the graph the total capacity
\* between them is w = K * exp(-(feature distance) / sigma), whether one or
\* both endpoints have positive raw density.
C21_SingleEdgeCapacity ==
    pc = "solve" =>
        LET cap == Capacities(added, num_nodes)
        IN  \A P \in JoinedPairs : TotalCap(cap, P) = Affinity(Dist(P))

\* C22: in the built graph no add_edge call joins a node to itself, no ordered
\* (node, neighbour) pair is added twice, and the accumulated capacity u -> v
\* equals the accumulated capacity v -> u for every pair of nodes.
C22_WellFormed ==
    pc = "solve" =>
        /\ \A m \in 1..Len(added) : added[m][1] # added[m][2]
        /\ \A m, n \in 1..Len(added) :
              (added[m][1] = added[n][1] /\ added[m][2] = added[n][2]) => m = n
        /\ LET cap == Capacities(added, num_nodes)
           IN  \A u, v \in DOMAIN idx_values : cap[<<u, v>>] = cap[<<v, u>>]

\* a built graph with a pair of nodes joined from one side only and a pair
\* joined from both sides
C22_Witness ==
    /\ pc = "solve"
    /\ \E m \in 1..Len(added) :
          \A n \in 1..Len(added) :
              ~(added[n][1] = added[m][2] /\ added[n][2] = added[m][1])
    /\ \E m, n \in 1..Len(added) :
          added[n][1] = added[m][2] /\ added[n][2] = added[m][1]

\* C23, as stated: after graph construction every edit-seed node has terminal
\* capacities (infinity, 0), every object-seed node has (0, infinity) and every
\* other node has (0, 0).
C23_TerminalCapacities ==
    Built =>
        \A i \in DOMAIN tedges :
            /\ i \in EditSeeds => (tedges[i].source /\ ~tedges[i].sink)
            /\ i \in ObjSeeds => (~tedges[i].source /\ tedges[i].sink)
            /\ i \notin EditSeeds \cup ObjSeeds => (~tedges[i].source /\ ~tedges[i].sink)

\* C23, amended: after graph construction every edit-seed node has terminal
\* capacities (infinity, 0), every object-seed node that is not also an edit
\* seed has (0, infinity), every node in neither seed list has (0, 0), and no
\* node has both terminal edges.
C23_TerminalCapacitiesResolved ==
    Built =>
        \A i \in DOMAIN tedges :
            /\ i \in EditSeeds => (tedges[i].source /\ ~tedges[i].sink)
            /\ i \in ObjSeeds \ EditSeeds => (~tedges[i].source /\ tedges[i].sink)
            /\ i \notin EditSeeds \cup ObjSeeds => (~tedges[i].source /\ ~tedges[i].sink)
            /\ ~(tedges[i].source /\ tedges[i].sink)

\* a built graph with a node in both seed lists, a node in the object list
\* only and a node in neither list
C23_Witness ==
    /\ Built
    /\ EditSeeds \cap ObjSeeds # {}
    /\ ObjSeeds \ EditSeeds # {}
    /\ DOMAIN tedges \ (EditSeeds \cup ObjSeeds) # {}

\* softmax edit probability of a node, from the attention values at its voxel
PEdit(i) == SoftmaxEdit(edit_attn[idx_values[i]] - obj_attn[idx_values[i]])

\* the nodes with p_edit >= edit_mask_thresh * max(p_edit), max over all nodes
PrimaryEditSet ==
    {i \in DOMAIN idx_values :
        \A j \in DOMAIN idx_values : 1000 * PEdit(i) >= edit_mask_thresh * PEdit(j)}

\* C24: when seed selection has completed without the fallback (the primary set
\* has at least min_num_edit_voxels nodes), the edit-seed set is exactly the set
\* of nodes with p_edit >= edit_mask_thresh * max(p_edit), and every node that
\* attains the maximum is an edit seed.
C24_PrimaryEditRule ==
    (pc = "edges" /\ Cardinality(PrimaryEditSet) >= min_num_edit_voxels) =>
        /\ EditSeeds = PrimaryEditSet
        /\ \A i \in DOMAIN idx_values :
              (\A j \in DOMAIN idx_values : PEdit(i) >= PEdit(j)) => i \in EditSeeds

\* seed selection completed by the primary rule and left some node out
C24_Witness ==
    /\ Seeded
    /\ Cardinality(PrimaryEditSet) >= min_num_edit_voxels
    /\ DOMAIN idx_values \ EditSeeds # {}

\* the object-dominant nodes: p_object > p_edit
ObjDominant == {i \in DOMAIN idx_values : 100000 - PEdit(i) > PEdit(i)}

\* C25: when seed selection has completed without the fallback, the object-seed
\* index list has no duplicates, is a subset of the object-dominant nodes and
\* has min(|object-dominant set|, num_obj_voxels_thresh) entries; it is the
\* whole set when that set has at most num_obj_voxels_thresh nodes.
C25_PrimaryObjectRule ==
    (pc = "edges" /\ Cardinality(PrimaryEditSet) >= min_num_edit_voxels) =>
        /\ Cardinality(ObjSeeds) = Len(top_k_best_obj_idxs)
        /\ ObjSeeds \subseteq ObjDominant
        /\ Len(top_k_best_obj_idxs) = Min(Cardinality(ObjDominant), num_obj_voxels_thresh)
        /\ Cardinality(ObjDominant) <= num_obj_voxels_thresh => ObjSeeds = ObjDominant

\* seed selection completed by the primary rule with more object-dominant
\* nodes than num_obj_voxels_thresh, so that the subsample is a proper subset
C25_Witness ==
    /\ pc = "edges"
    /\ Cardinality(PrimaryEditSet) >= min_num_edit_voxels
    /\ Cardinality(ObjDominant) > num_obj_voxels_thresh
    /\ ObjSeeds # ObjDominant

\* the k entries of the index list q are distinct nodes, and none of the nodes
\* left out has a larger value of the field attn than a node of q
IsTopK(q, k, attn) ==
    /\ Len(q) = k
    /\ Cardinality(Range(q)) = k
    /\ Range(q) \subseteq DOMAIN idx_values
    /\ \A i \in Range(q) : \A j \in DOMAIN idx_values \ Range(q) :
          attn[idx_values[i]] >= attn[idx_values[j]]

StageSuccessor ==
    {<<"entry", "nodes">>, <<"nodes", "seeds">>, <<"seeds", "edges">>,
     <<"edges", "solve">>, <<"solve", "baseline">>,
     <<"baseline", "materialize">>, <<"materialize", "done">>}

\* each step moves to the next stage or raises; the seed lists are not
\* assigned once edges are being added; no edge exists before the seeds are
\* fixed; the edges are not changed and no flow exists before the solve starts
StageOrder ==
    /\ pc' # pc => (<<pc, pc'>> \in StageSuccessor \/ pc' = "raised")
    /\ pc \in {"edges", "solve", "baseline", "materialize", "done"} =>
          UNCHANGED <<top_k_best_edit_idxs, top_k_best_obj_idxs>>
    /\ pc \in {"entry", "nodes", "seeds"} => (tedges = Empty /\ added = <<>>)
    /\ pc \in {"solve", "baseline", "materialize", "done"} =>
          UNCHANGED <<tedges, added>>
    /\ pc \in {"entry", "nodes", "seeds", "edges"} => (flow = 0 /\ segments = Empty)

\* C27: a call of get_edit_region whose entry checks pass goes through the
\* stages Seed, Build, Solve, Materialize once each, in that order, and
\* eventually reaches done.
C27_OneShot ==
    /\ [][StageOrder]_vars
    /\ (pc = "nodes") ~> (pc = "done")

\* the densities or the features of the two models differ at some voxel
GridsDiffer == obj_densities # densities \/ obj_features # features

\* C28: when the densities or the features of vol_mod_edit and vol_mod_object
\* differ, the call fails at entry with an assertion error, build_graph is
\* never called (no node, seed or edge exists) and no step changes
\* vol_mod_output's attention field.
C28_EntryGuard ==
    /\ [](GridsDiffer =>
            /\ pc \in {"entry", "raised"}
            /\ pc = "raised" => err \in {"assert_densities", "assert_features"}
            /\ InitGraph)
    /\ [][GridsDiffer => (pc' = "raised" /\ UNCHANGED out_attn)]_vars

\* a call has failed at entry on features that differ while the densities agree
C28_Witness ==
    /\ obj_densities = densities
    /\ obj_features # features
    /\ pc = "raised"
    /\ err = "assert_features"

\* the neighbour of node i at offset off passes the two index checks
PassesIndexChecks(i, off) ==
    LET n == Plus(idx_values[i], off)
    IN  ~OutsideGrid(n, shape) /\ ~NegativeIdx(n)

\* C29: every neighbour coordinate that passes the index checks of the edge
\* loop lies inside the grid, and every one that also has a positive density
\* is a key of idx_dict that leads to the node at that coordinate; no run
\* fails in the density read or in the idx_dict lookup.
C29_SafeNeighbourLookup ==
    /\ err \notin {"densities_index", "idx_dict_key"}
    /\ pc = "edges" =>
          \A i \in DOMAIN idx_values : \A k \in DOMAIN g_neighbor_offsets :
              LET n == Plus(idx_values[i], g_neighbor_offsets[k])
              IN  PassesIndexChecks(i, g_neighbor_offsets[k]) =>
                     /\ n \in Coords(shape)
                     /\ n \in DOMAIN densities
                     /\ n \in DOMAIN features
                     /\ densities[n] > 0 =>
                           /\ gen_id(n, shape[1], shape[2]) \in DOMAIN idx_dict
                           /\ idx_values[idx_dict[gen_id(n, shape[1], shape[2])]] = n

\* on a grid with unequal sides, a neighbour with a positive density passes the
\* index checks and another neighbour inside the grid is turned away by them
C29_Witness ==
    /\ pc = "edges"
    /\ shape[1] # shape[3]
    /\ \E i \in DOMAIN idx_values : \E k \in DOMAIN g_neighbor_offsets :
          /\ PassesIndexChecks(i, g_neighbor_offsets[k])
          /\ densities[Plus(idx_values[i], g_neighbor_offsets[k])] > 0
    /\ \E i \in DOMAIN idx_values : \E k \in DOMAIN g_neighbor_offsets :
          /\ ~PassesIndexChecks(i, g_neighbor_offsets[k])
          /\ Plus(idx_values[i], g_neighbor_offsets[k]) \in Coords(shape)

\* C30: in every state max_step_ratio is at least 0.22 and min_step is at most
\* max_step; a train_step call whose global_step is at least t_sched_start and
\* a multiple of t_sched_freq sets max_step_ratio to the larger of 0.22 and
\* max_step_ratio * t_sched_gamma, and every other call leaves it as it was.
C30_ScheduleInvariant ==
    /\ [](max_step_ratio >= max_step_ratio_floor /\ min_step <= max_step)
    /\ [][num_calls' = num_calls + 1 =>
            LET scaled == (max_step_ratio * t_sched_gamma) \div 10
            IN  IF global_step' >= t_sched_start /\ global_step' % t_sched_freq = 0
                THEN max_step_ratio' = IF scaled > max_step_ratio_floor
                                       THEN scaled ELSE max_step_ratio_floor
                ELSE max_step_ratio' = max_step_ratio]_vars

\* after several calls a decaying schedule has been held at 0.22
C30_Witness ==
    /\ num_calls >= 2
    /\ t_sched_gamma \in 1..9
    /\ max_step_ratio = max_step_ratio_floor
    /\ Scheduled(global_step)

====
